---- MODULE Spec2Model ----
(***************************************************************************)
(* A model of streamlit_app.py: the All-Island Major Projects dashboard.   *)
(*                                                                         *)
(* Python values are modelled as follows.                                  *)
(*   - a str is a sequence of one-character strings ("chars");             *)
(*   - None is the record None;                                            *)
(*   - a JSON scalar is a tagged record: [t |-> "null"],                   *)
(*     [t |-> "str", s |-> chars] or [t |-> "num", n |-> integer];         *)
(*   - a float is [t |-> "float", f |-> n], n counting units of            *)
(*     1/FloatScale (fixed point);                                         *)
(*   - a raised exception is [t |-> "raise", raised |-> <the exception>];  *)
(*   - a tuple or list is [t |-> "tuple", items |-> <sequence>].           *)
(***************************************************************************)
EXTENDS Integers, Sequences, FiniteSets, TLC

VARIABLES
    pc,             \* position of the run: which step comes next
    existing,       \* merge_projects: first argument
    incoming,       \* merge_projects: second argument
    merged,         \* merge_projects: returned list
    url,            \* build_arcgis_query: argument
    target,         \* build_arcgis_query(url)
    target2,        \* build_arcgis_query(target)
    v,              \* parse_date: numeric argument
    ms,             \* parse_date: the local ms
    date,           \* parse_date: returned value
    feature,        \* _feature_to_project / _normalise_record: argument
    hashseed,       \* the process's string-hash seed (PYTHONHASHSEED)
    record,         \* _feature_to_project / _normalise_record: outcome
    session_state,  \* st.session_state: the "ext_projects" entry
    response,       \* what requests.get met on the last load
    message,        \* the last st.success / st.error of the sidebar
    all_projects    \* SEED_PROJECTS + ext_projects of the last script run

vars == <<pc, existing, incoming, merged, url, target, target2, v, ms, date,
          feature, hashseed, record, session_state, response, message,
          all_projects>>

mergeVars   == <<existing, incoming, merged>>
urlVars     == <<url, target, target2>>
dateVars    == <<v, ms, date>>
featureVars == <<feature, hashseed, record>>
sessionVars == <<session_state, response, message, all_projects>>

(***************************************************************************)
(* Generic helpers on sequences.                                           *)
(***************************************************************************)
None == [t |-> "None"]

Range(s) == {s[i] : i \in 1..Len(s)}

SeqsUpTo(S, n) == UNION {[1..k -> S] : k \in 0..n}

\* s[i:] of Python (1-based i here)
Drop(s, k) == SubSeq(s, k + 1, Len(s))

\* s[:k] of Python
Take(s, k) == SubSeq(s, 1, IF k < Len(s) THEN k ELSE Len(s))

\* F(x), with x computed once
Bind(x, F(_)) == CHOOSE r \in {F(y) : y \in {x}} : TRUE

\* needle in hay, for two strs
Contains(hay, needle) ==
    \E i \in 0..(Len(hay) - Len(needle)) :
        SubSeq(hay, i + 1, i + Len(needle)) = needle

(***************************************************************************)
(* merge_projects                                                          *)
(***************************************************************************)
\* by_id[p["id"]] = p on an insertion-ordered dict, kept as the list of its values
DictPut(by_id, p) ==
    IF \E i \in 1..Len(by_id) : by_id[i].id = p.id
    THEN [i \in 1..Len(by_id) |-> IF by_id[i].id = p.id THEN p ELSE by_id[i]]
    ELSE Append(by_id, p)

RECURSIVE DictPutAll(_, _)
DictPutAll(by_id, ps) ==
    IF ps = <<>> THEN by_id
    ELSE DictPutAll(DictPut(by_id, Head(ps)), Tail(ps))

\* a plausible slip: the first record with an id is kept (setdefault)
DictKeepAll(by_id, ps) ==
    LET fresh == SelectSeq(ps, LAMBDA p : \A i \in 1..Len(by_id) : by_id[i].id # p.id)
    IN  DictPutAll(by_id, fresh)

\* merge_projects with the slip above: existing wins on a conflict
merge_projects_existing_wins(ex, inc) ==
    LET by_id == DictPutAll(<<>>, ex)
    IN  DictKeepAll(by_id, inc)

merge_projects(ex, inc) ==
    LET by_id == DictPutAll(<<>>, ex)
    IN  DictPutAll(by_id, inc)

(***************************************************************************)
(* build_arcgis_query                                                      *)
(***************************************************************************)
\* the characters str.strip() removes that the modelled inputs can hold
Whitespace == {" ", "\t"}

RECURSIVE LStrip(_, _)
LStrip(s, cs) ==
    IF s # <<>> /\ Head(s) \in cs THEN LStrip(Tail(s), cs) ELSE s

RECURSIVE RStrip(_, _)
RStrip(s, cs) ==
    IF s # <<>> /\ s[Len(s)] \in cs THEN RStrip(SubSeq(s, 1, Len(s) - 1), cs) ELSE s

Strip(s) == RStrip(LStrip(s, Whitespace), Whitespace)

\* "/query?"
QuerySegment == <<"/", "q", "u", "e", "r", "y", "?">>

\* "/query?where=1%3D1&outFields=*&f=geojson"
QuerySuffix == <<"/", "q", "u", "e", "r", "y", "?", "w", "h", "e", "r", "e", "=", "1", "%", "3", "D", "1", "&", "o", "u", "t", "F", "i", "e", "l", "d", "s", "=", "*", "&", "f", "=", "g", "e", "o", "j", "s", "o", "n">>

\* build_arcgis_query with the "/query?" test left out: it always appends
build_arcgis_query_always_appends(u) ==
    LET s == Strip(u)
    IN  IF s = <<>> THEN <<>> ELSE RStrip(s, {"/"}) \o QuerySuffix

build_arcgis_query(u) ==
    LET s == Strip(u)
    IN  IF s = <<>> THEN <<>>
        ELSE IF Contains(s, QuerySegment) THEN s
        ELSE RStrip(s, {"/"}) \o QuerySuffix

(***************************************************************************)
(* parse_date                                                              *)
(*                                                                         *)
(* An epoch number is kept in two limbs, v = hi * Base + lo, with a sign,  *)
(* so that 1e12 and the milliseconds of the year 9999 stay inside TLC's    *)
(* 32-bit integers. A returned "%Y-%m-%d" text is kept as the record       *)
(* [y, m, d] it prints.                                                    *)
(***************************************************************************)
Base == 10^6

Big(neg, hi, lo) == [neg |-> neg, hi |-> hi, lo |-> lo]

\* an int of the property map as an epoch number
BigOf(n) ==
    IF n < 0 THEN Big(TRUE, (-n) \div Base, (-n) % Base)
    ELSE Big(FALSE, n \div Base, n % Base)

\* 1e9 and 1e12, the two thresholds of line 115
E9  == Big(FALSE, 10^3, 0)
E12 == Big(FALSE, 10^6, 0)

\* a > b, for b >= 0
BigGT(a, b) ==
    /\ ~a.neg
    /\ \/ a.hi > b.hi
       \/ a.hi = b.hi /\ a.lo > b.lo

\* v * 1000
BigTimes1000(a) ==
    Big(a.neg, a.hi * 1000 + (a.lo * 1000) \div Base, (a.lo * 1000) % Base)

\* floor(|a| / 86400000) and whether the division is exact: 86400000 = 864 * 10^5
AbsDays(a) ==
    LET q == a.hi \div 864
        r == a.hi % 864
        x == 10 * r + a.lo \div 10^5
    IN  [days  |-> 10 * q + x \div 864,
         exact |-> x % 864 = 0 /\ a.lo % 10^5 = 0]

\* the day of the epoch the instant a (milliseconds) falls in: floor(a / 86400000)
EpochDay(a) ==
    LET d == AbsDays(a)
    IN  IF ~a.neg THEN d.days
        ELSE IF d.exact THEN -d.days ELSE -d.days - 1

\* the days of 0001-01-01 and of 9999-12-31, the range datetime represents
MinDay == -719162
MaxDay == 2932896

\* the civil date of a day of the epoch (proleptic Gregorian, as datetime computes it)
CivilFromDays(days) ==
    LET z   == days + 719468
        era == z \div 146097
        doe == z - era * 146097
        yoe == (doe - doe \div 1460 + doe \div 36524 - doe \div 146096) \div 365
        doy == doe - (365 * yoe + yoe \div 4 - yoe \div 100)
        mp  == (5 * doy + 2) \div 153
        d   == doy - (153 * mp + 2) \div 5 + 1
        m   == IF mp < 10 THEN mp + 3 ELSE mp - 9
        y   == yoe + era * 400 + (IF m <= 2 THEN 1 ELSE 0)
    IN  [t |-> "date", y |-> y, m |-> m, d |-> d]

\* datetime.utcfromtimestamp(ms / 1000).strftime("%Y-%m-%d") inside the try of
\* lines 116-119: None when the instant is outside the years 1..9999
UtcDate(a) ==
    LET day == EpochDay(a)
    IN  IF day < MinDay \/ day > MaxDay THEN None
        ELSE CivilFromDays(day)

\* line 115 with the seconds branch taken below 1e9 instead of above it
EpochMs_scales_below_1e9(a) ==
    IF BigGT(a, E12) THEN a
    ELSE IF ~BigGT(a, E9) THEN BigTimes1000(a) ELSE a

\* line 115: ms = v if v > 1e12 else (v * 1000 if v > 1e9 else v)
EpochMs(a) ==
    IF BigGT(a, E12) THEN a
    ELSE IF BigGT(a, E9) THEN BigTimes1000(a) ELSE a

\* parse_date on an int: lines 114-119
parse_date_num(a) == UtcDate(EpochMs(a))

(***************************************************************************)
(* JSON scalars and Python's conversions on them                           *)
(***************************************************************************)
Null   == [t |-> "null"]
Str(s) == [t |-> "str", s |-> s]
Num(n) == [t |-> "num", n |-> n]

\* units per 1.0 of the fixed-point floats
FloatScale == 2 * 10^5

Digits == {"0", "1", "2", "3", "4", "5", "6", "7", "8", "9"}

DigitVal(c) ==
    CASE c = "0" -> 0 [] c = "1" -> 1 [] c = "2" -> 2 [] c = "3" -> 3 [] c = "4" -> 4
      [] c = "5" -> 5 [] c = "6" -> 6 [] c = "7" -> 7 [] c = "8" -> 8 [] c = "9" -> 9

DigitChar(d) ==
    CASE d = 0 -> "0" [] d = 1 -> "1" [] d = 2 -> "2" [] d = 3 -> "3" [] d = 4 -> "4"
      [] d = 5 -> "5" [] d = 6 -> "6" [] d = 7 -> "7" [] d = 8 -> "8" [] d = 9 -> "9"

\* the value of a run of digits
RECURSIVE DigitsVal(_)
DigitsVal(s) ==
    IF s = <<>> THEN 0 ELSE 10 * DigitsVal(SubSeq(s, 1, Len(s) - 1)) + DigitVal(s[Len(s)])

AllDigits(s) == \A i \in 1..Len(s) : s[i] \in Digits

\* str(n) for a natural n
RECURSIVE NatToStr(_)
NatToStr(n) ==
    IF n < 10 THEN <<DigitChar(n)>> ELSE Append(NatToStr(n \div 10), DigitChar(n % 10))

\* str(n) for an int n
IntToStr(n) == IF n < 0 THEN <<"-">> \o NatToStr(-n) ELSE NatToStr(n)

\* str(x) for a scalar that is not None
PyStr(x) == IF x.t = "str" THEN x.s ELSE IntToStr(x.n)

\* bool(x): the truth value the or of lines 140-161 and 214-218 tests
Truthy(x) ==
    CASE x.t = "str" -> x.s # <<>>
      [] x.t = "num" -> x.n # 0
      [] OTHER       -> FALSE

\* x not in (None, "")
NotBlank(x) == ~(x.t \in {"null", "None"} \/ (x.t = "str" /\ x.s = <<>>))

\* the upper-case letters and their lower-case forms
UpperToLower ==
    [c \in {"A", "B", "C", "D", "E", "F", "G", "H", "I", "J", "K", "L", "M",
            "N", "O", "P", "Q", "R", "S", "T", "U", "V", "W", "X", "Y", "Z"} |->
        CASE c = "A" -> "a" [] c = "B" -> "b" [] c = "C" -> "c" [] c = "D" -> "d"
          [] c = "E" -> "e" [] c = "F" -> "f" [] c = "G" -> "g" [] c = "H" -> "h"
          [] c = "I" -> "i" [] c = "J" -> "j" [] c = "K" -> "k" [] c = "L" -> "l"
          [] c = "M" -> "m" [] c = "N" -> "n" [] c = "O" -> "o" [] c = "P" -> "p"
          [] c = "Q" -> "q" [] c = "R" -> "r" [] c = "S" -> "s" [] c = "T" -> "t"
          [] c = "U" -> "u" [] c = "V" -> "v" [] c = "W" -> "w" [] c = "X" -> "x"
          [] c = "Y" -> "y" [] c = "Z" -> "z"]

LowerChar(c) == IF c \in DOMAIN UpperToLower THEN UpperToLower[c] ELSE c

\* str.lower()
Lower(s) == [i \in 1..Len(s) |-> LowerChar(s[i])]

\* float(s) for a str s: [ok, val]. The texts the model feeds it hold digits,
\* ".", "-", whitespace and letters that no float spelling has; exponents,
\* "inf", "nan" and "_" are outside them.
ParseFloat(s0) ==
    LET s      == Strip(s0)
        signed == s # <<>> /\ s[1] \in {"-", "+"}
        body   == IF signed THEN Tail(s) ELSE s
        dots   == {i \in 1..Len(body) : body[i] = "."}
        dot    == IF dots = {} THEN Len(body) + 1 ELSE CHOOSE i \in dots : TRUE
        ip     == SubSeq(body, 1, dot - 1)
        fp     == SubSeq(body, dot + 1, Len(body))
        ok     == /\ Cardinality(dots) <= 1
                  /\ AllDigits(ip) /\ AllDigits(fp)
                  /\ Len(ip) + Len(fp) >= 1
        mag    == DigitsVal(ip) * FloatScale + (DigitsVal(fp) * FloatScale) \div 10^Len(fp)
    IN  IF ~ok THEN [ok |-> FALSE, val |-> 0]
        ELSE [ok |-> TRUE, val |-> IF signed /\ s[1] = "-" THEN -mag ELSE mag]

\* float(n) for an int n
FloatOfInt(n) == n * FloatScale

\* a float as a Python value
Float(f) == [t |-> "float", f |-> f]

(***************************************************************************)
(* parse_date on a str, and parse_date                                     *)
(***************************************************************************)
IsLeap(y) == (y % 4 = 0 /\ y % 100 # 0) \/ y % 400 = 0

DaysInMonth(y, m) ==
    IF m = 2 THEN (IF IsLeap(y) THEN 29 ELSE 28)
    ELSE IF m \in {4, 6, 9, 11} THEN 30 ELSE 31

\* the date datetime(y, m, d) builds, None where it raises ValueError
MakeDate(y, m, d) ==
    IF y >= 1 /\ y <= 9999 /\ m >= 1 /\ m <= 12 /\ d >= 1 /\ d <= DaysInMonth(y, m)
    THEN [t |-> "date", y |-> y, m |-> m, d |-> d] ELSE None

\* s.split(c)
RECURSIVE Split(_, _)
Split(s, c) ==
    LET at == {i \in 1..Len(s) : s[i] = c}
    IN  IF at = {} THEN <<s>>
        ELSE LET i == CHOOSE j \in at : \A k \in at : j <= k
             IN  <<SubSeq(s, 1, i - 1)>> \o Split(Drop(s, i), c)

\* datetime.fromisoformat on a text without a time part: exactly YYYY-MM-DD.
\* Texts with a time part are outside the modelled inputs.
FromIsoFormat(s) ==
    LET p == Split(s, "-")
    IN  IF Len(p) = 3 /\ Len(p[1]) = 4 /\ Len(p[2]) = 2 /\ Len(p[3]) = 2
           /\ AllDigits(p[1]) /\ AllDigits(p[2]) /\ AllDigits(p[3])
        THEN MakeDate(DigitsVal(p[1]), DigitsVal(p[2]), DigitsVal(p[3]))
        ELSE None

\* datetime.strptime(s, "%Y-%m-%d"): four digits, then one or two, then one or two
Strptime(s) ==
    LET p == Split(s, "-")
    IN  IF Len(p) = 3 /\ Len(p[1]) = 4 /\ Len(p[2]) \in {1, 2} /\ Len(p[3]) \in {1, 2}
           /\ AllDigits(p[1]) /\ AllDigits(p[2]) /\ AllDigits(p[3])
        THEN MakeDate(DigitsVal(p[1]), DigitsVal(p[2]), DigitsVal(p[3]))
        ELSE None

\* str.replace("Z", "+00:00")
RECURSIVE ReplaceZ(_)
ReplaceZ(s) ==
    IF s = <<>> THEN <<>>
    ELSE (IF Head(s) = "Z" THEN <<"+", "0", "0", ":", "0", "0">> ELSE <<Head(s)>>)
         \o ReplaceZ(Tail(s))

\* lines 120-128
parse_date_str(s) ==
    LET d == FromIsoFormat(ReplaceZ(s))
    IN  IF d # None THEN d ELSE Strptime(s)

\* parse_date, lines 111-128
parse_date(x) ==
    IF ~NotBlank(x) THEN None
    ELSE IF x.t = "num" THEN parse_date_num(BigOf(x.n))
    ELSE parse_date_str(x.s)

(***************************************************************************)
(* _normalise_record                                                       *)
(*                                                                         *)
(* A property map is the list of its (key, value) pairs in the order the   *)
(* JSON object gives them, with distinct keys.                             *)
(***************************************************************************)
\* lower = {str(k).lower(): v for k, v in rec.items()}, line 131: the pairs with
\* their keys lowered (a later pair replaces an earlier one with its key)
LowerDict(rec) == [i \in 1..Len(rec) |-> [k |-> Lower(rec[i].k), v |-> rec[i].v]]

\* lower.get(k)
LowerGet(lower, k) ==
    LET at == {i \in 1..Len(lower) : lower[i].k = k}
    IN  IF at = {} THEN None
        ELSE lower[CHOOSE i \in at : \A j \in at : j <= i].v

\* get_any, lines 133-138
RECURSIVE get_any(_, _)
get_any(lower, keys) ==
    IF keys = <<>> THEN None
    ELSE LET x == LowerGet(lower, Head(keys))
         IN  IF NotBlank(x) THEN x ELSE get_any(lower, Tail(keys))

\* a or b, for a scalar a and a str b: the str either way
OrStr(a, b) == IF Truthy(a) THEN a ELSE Str(b)

\* any(x in raw for x in words)
AnyIn(words, raw) == \E i \in 1..Len(words) : Contains(raw, words[i])

\* line 140
NameKeys ==
    << <<"n", "a", "m", "e">>,
       <<"p", "r", "o", "j", "e", "c", "t">>,
       <<"p", "r", "o", "j", "e", "c", "t", "_", "n", "a", "m", "e">>,
       <<"t", "i", "t", "l", "e">>,
       <<"s", "c", "h", "e", "m", "e">>,
       <<"s", "c", "h", "e", "m", "e", "_", "n", "a", "m", "e">> >>

\* line 142
SectorKeys ==
    << <<"s", "e", "c", "t", "o", "r">>,
       <<"c", "a", "t", "e", "g", "o", "r", "y">>,
       <<"t", "h", "e", "m", "e">> >>

\* line 143
TransportWords ==
    << <<"t", "r", "a", "n", "s", "p", "o", "r", "t">>,
       <<"r", "a", "i", "l">>,
       <<"r", "o", "a", "d">>,
       <<"b", "u", "s">> >>

\* line 145
EnergyWords ==
    << <<"e", "n", "e", "r", "g", "y">>,
       <<"g", "r", "i", "d">>,
       <<"r", "e", "n", "e", "w">> >>

\* line 147
WaterWords ==
    << <<"w", "a", "t", "e", "r">>,
       <<"w", "a", "s", "t", "e", "w", "a", "t", "e", "r">>,
       <<"d", "r", "a", "i", "n", "a", "g", "e">>,
       <<"u", "i", "s", "c", "e">> >>

\* line 152
JurisdictionKeys ==
    << <<"j", "u", "r", "i", "s", "d", "i", "c", "t", "i", "o", "n">>,
       <<"r", "e", "g", "i", "o", "n">>,
       <<"c", "o", "u", "n", "t", "r", "y">> >>

\* line 155
IrelandWords ==
    << <<"i", "r", "e", "l", "a", "n", "d">>,
       <<"r", "o", "i">>,
       <<"r", "e", "p", "u", "b", "l", "i", "c">> >>

\* line 160
CompanyKeys ==
    << <<"c", "o", "m", "p", "a", "n", "y">>,
       <<"p", "r", "o", "m", "o", "t", "e", "r">>,
       <<"s", "p", "o", "n", "s", "o", "r">>,
       <<"c", "l", "i", "e", "n", "t">>,
       <<"a", "u", "t", "h", "o", "r", "i", "t", "y">>,
       <<"o", "r", "g", "a", "n", "i", "s", "a", "t", "i", "o", "n">>,
       <<"o", "r", "g", "a", "n", "i", "z", "a", "t", "i", "o", "n">> >>

\* line 161
StatusKeys ==
    << <<"s", "t", "a", "t", "u", "s">>,
       <<"s", "t", "a", "g", "e">>,
       <<"l", "i", "f", "e", "c", "y", "c", "l", "e">>,
       <<"p", "h", "a", "s", "e">> >>

\* line 163
CostKeys ==
    << <<"c", "o", "s", "t">>,
       <<"t", "o", "t", "a", "l", "_", "c", "o", "s", "t">>,
       <<"e", "s", "t", "i", "m", "a", "t", "e", "d", "_", "c", "o", "s", "t">>,
       <<"c", "a", "p", "e", "x">>,
       <<"b", "u", "d", "g", "e", "t">>,
       <<"v", "a", "l", "u", "e">> >>

\* line 170
StartKeys ==
    << <<"s", "t", "a", "r", "t">>,
       <<"s", "t", "a", "r", "t", "_", "d", "a", "t", "e">>,
       <<"c", "o", "n", "s", "t", "r", "u", "c", "t", "i", "o", "n", "_", "s", "t", "a", "r", "t">>,
       <<"p", "l", "a", "n", "n", "e", "d", "_", "s", "t", "a", "r", "t">> >>

\* line 171
EndKeys ==
    << <<"e", "n", "d">>,
       <<"e", "n", "d", "_", "d", "a", "t", "e">>,
       <<"c", "o", "m", "p", "l", "e", "t", "i", "o", "n">>,
       <<"p", "l", "a", "n", "n", "e", "d", "_", "c", "o", "m", "p", "l", "e", "t", "i", "o", "n">> >>

\* line 173
LatKeys ==
    << <<"l", "a", "t">>,
       <<"l", "a", "t", "i", "t", "u", "d", "e">>,
       <<"y">> >>

\* line 174
LngKeys ==
    << <<"l", "n", "g">>,
       <<"l", "o", "n">>,
       <<"l", "o", "n", "g">>,
       <<"l", "o", "n", "g", "i", "t", "u", "d", "e">>,
       <<"x">> >>

\* "Untitled project"
Untitled == <<"U", "n", "t", "i", "t", "l", "e", "d", " ", "p", "r", "o", "j", "e", "c", "t">>

\* "Other"
OtherText == <<"O", "t", "h", "e", "r">>

\* "northern"
Northern == <<"n", "o", "r", "t", "h", "e", "r", "n">>

\* "Transport"
Transport == <<"T", "r", "a", "n", "s", "p", "o", "r", "t">>

\* "Energy"
Energy == <<"E", "n", "e", "r", "g", "y">>

\* "Water"
Water == <<"W", "a", "t", "e", "r">>

\* "Ireland"
Ireland == <<"I", "r", "e", "l", "a", "n", "d">>

\* "Northern Ireland"
NorthernIreland == <<"N", "o", "r", "t", "h", "e", "r", "n", " ", "I", "r", "e", "l", "a", "n", "d">>

\* "Cross-border"
CrossBorder == <<"C", "r", "o", "s", "s", "-", "b", "o", "r", "d", "e", "r">>

SECTORS == <<Transport, Energy, Water, OtherText>>

JURISDICTIONS == <<Ireland, NorthernIreland, CrossBorder>>

\* lines 142-150
SectorOf(lower) ==
    LET sector_raw == Lower(PyStr(OrStr(get_any(lower, SectorKeys), OtherText)))
    IN  IF AnyIn(TransportWords, sector_raw) THEN Transport
        ELSE IF AnyIn(EnergyWords, sector_raw) THEN Energy
        ELSE IF AnyIn(WaterWords, sector_raw) THEN Water
        ELSE OtherText

\* lines 152-158
JurisdictionOf(lower) ==
    LET jurisdiction_raw == Lower(PyStr(OrStr(get_any(lower, JurisdictionKeys), <<>>)))
    IN  IF Contains(jurisdiction_raw, Northern) THEN NorthernIreland
        ELSE IF AnyIn(IrelandWords, jurisdiction_raw) THEN Ireland
        ELSE Ireland

\* re.sub(r"[^0-9.\-]", "", cost)
CostChars(s) == SelectSeq(s, LAMBDA c : c \in Digits \cup {".", "-"})

\* lines 163-168 and float(cost) of line 182: [ok, val], ok FALSE where float raises
\* ValueError
CostOf(lower) ==
    LET cost == get_any(lower, CostKeys)
    IN  IF cost.t = "str"
        THEN LET cost_num == CostChars(cost.s)
             IN  IF cost_num = <<>> THEN [ok |-> TRUE, val |-> 0]
                 ELSE ParseFloat(cost_num)
        ELSE IF cost.t = "num" THEN [ok |-> TRUE, val |-> FloatOfInt(cost.n)]
        ELSE [ok |-> TRUE, val |-> 0]

\* float(x) if x not in (None, "") else None, lines 185-186: [ok, val]
FloatOrNone(x) ==
    IF ~NotBlank(x) THEN [ok |-> TRUE, val |-> None]
    ELSE IF x.t = "num" THEN [ok |-> TRUE, val |-> Float(FloatOfInt(x.n))]
    ELSE LET f == ParseFloat(x.s) IN [ok |-> f.ok, val |-> Float(f.val)]

\* a raised exception, as the outcome of a call
Raise(e) == [t |-> "raise", raised |-> e]

ValueError == Raise("ValueError: could not convert string to float")
TypeError  == Raise("TypeError: object is not iterable")

Raised(r) == r.t = "raise"

\* a tuple or a list, as a Python value
Tuple(items) == [t |-> "tuple", items |-> items]

\* _normalise_record, lines 130-187
_normalise_record(rec) ==
    LET lower == LowerDict(rec)
        cost == CostOf(lower)
        lat  == FloatOrNone(get_any(lower, LatKeys))
        lng  == FloatOrNone(get_any(lower, LngKeys))
    IN  IF ~cost.ok \/ ~lat.ok \/ ~lng.ok THEN ValueError
        ELSE [t            |-> "dict",
              name         |-> PyStr(OrStr(get_any(lower, NameKeys), Untitled)),
              sector       |-> SectorOf(lower),
              jurisdiction |-> JurisdictionOf(lower),
              company      |-> PyStr(OrStr(get_any(lower, CompanyKeys), <<>>)),
              status       |-> PyStr(OrStr(get_any(lower, StatusKeys), <<>>)),
              cost         |-> Float(cost.val),
              start        |-> parse_date(get_any(lower, StartKeys)),
              end          |-> parse_date(get_any(lower, EndKeys)),
              lat          |-> lat.val,
              lng          |-> lng.val]

(***************************************************************************)
(* _feature_to_project                                                     *)
(*                                                                         *)
(* A feature is [properties, geometry]: properties a property map or Null, *)
(* geometry Null or [t, type, coordinates]. The coordinates of a Point are *)
(* Absent, Null or a list of floats and Nones; those of a Polygon are a    *)
(* list of rings, those of a MultiPolygon a list of Polygons' lists, a     *)
(* ring being a list of positions and a position a list of fixed-point     *)
(* numbers.                                                                *)
(***************************************************************************)
Absent == [t |-> "absent"]

\* props.get(k): the raw key, as spelt
PropsGet(props, k) ==
    LET at == {i \in 1..Len(props) : props[i].k = k}
    IN  IF at = {} THEN None ELSE props[CHOOSE i \in at : TRUE].v

\* the tokens re.finditer(r"-?\d+\.?\d*", ...) finds in json.dumps(x) and their
\* float() values, for one float x = n / FloatScale. repr(x) is positional
\* ("0.5", "-6.25") unless 0 < |x| < 1e-4, where it is scientific
\* ("1.5e-05"): mantissa and exponent are then two tokens. (|x| >= 1e16 is
\* scientific too, and outside the fixed-point range.)
NumberTokens(n) ==
    LET a == IF n < 0 THEN -n ELSE n
    IN  IF n = 0 \/ a >= FloatScale \div 10^4 THEN <<n>>
        ELSE LET e == IF a >= FloatScale \div 10^5 THEN 5 ELSE 6
             IN  <<n * 10^e, (-e) * FloatScale>>

\* the tokens of a list of numbers, of a list of such lists, and so on down the
\* nesting of the coordinates, in the order json.dumps prints them
RECURSIVE PositionTokens(_)
PositionTokens(pos) ==
    IF pos = <<>> THEN <<>> ELSE NumberTokens(Head(pos)) \o PositionTokens(Tail(pos))

RECURSIVE RingTokens(_)
RingTokens(ring) ==
    IF ring = <<>> THEN <<>> ELSE PositionTokens(Head(ring)) \o RingTokens(Tail(ring))

RECURSIVE PolygonTokens(_)
PolygonTokens(poly) ==
    IF poly = <<>> THEN <<>> ELSE RingTokens(Head(poly)) \o PolygonTokens(Tail(poly))

RECURSIVE MultiTokens(_)
MultiTokens(multi) ==
    IF multi = <<>> THEN <<>> ELSE PolygonTokens(Head(multi)) \o MultiTokens(Tail(multi))

\* nums[::2] and nums[1::2]
EvenItems(nums) == [i \in 1..((Len(nums) + 1) \div 2) |-> nums[2 * i - 1]]
OddItems(nums)  == [i \in 1..(Len(nums) \div 2) |-> nums[2 * i]]

Min(S) == CHOOSE x \in S : \A y \in S : x <= y
Max(S) == CHOOSE x \in S : \A y \in S : x >= y

\* lines 197-206, from the numbers the regular expression found
BoxMidpoint(nums) ==
    LET lngs == EvenItems(nums)
        lats == OddItems(nums)
    IN  IF lngs # <<>> /\ lats # <<>>
        THEN Tuple(<<Float((Min(Range(lngs)) + Max(Range(lngs))) \div 2),
                     Float((Min(Range(lats)) + Max(Range(lats))) \div 2)>>)
        ELSE None

\* "Point"
PointText == <<"P", "o", "i", "n", "t">>

\* "Polygon"
PolygonText == <<"P", "o", "l", "y", "g", "o", "n">>

\* "MultiPolygon"
MultiPolygonText == <<"M", "u", "l", "t", "i", "P", "o", "l", "y", "g", "o", "n">>

\* lines 193-206: the coords the geometry gives, None, or TypeError from tuple()
GeometryCoords(geom) ==
    IF geom.t = "null" THEN None
    ELSE IF geom.type = Str(PointText)
    THEN (IF geom.coordinates.t = "absent" THEN Tuple(<<None, None>>)
          ELSE IF geom.coordinates.t = "null" THEN TypeError
          ELSE Tuple(geom.coordinates.items))
    ELSE IF geom.type = Str(PolygonText)
    THEN (IF geom.coordinates.t \in {"absent", "null"} THEN None
          ELSE BoxMidpoint(PolygonTokens(geom.coordinates.items)))
    ELSE IF geom.type = Str(MultiPolygonText)
    THEN (IF geom.coordinates.t \in {"absent", "null"} THEN None
          ELSE BoxMidpoint(MultiTokens(geom.coordinates.items)))
    ELSE None

\* the value None, as against a tuple or an exception
IsNone(x) == x = None

\* abs(hash(json.dumps(props, sort_keys=True))): str hashes are keyed by the
\* process's seed and otherwise a fixed function of the text, which sort_keys
\* makes a function of the map's set of pairs. The arithmetic stands in for
\* SipHash.
PairWeight(p) ==
    31 * Len(p.k)
    + (IF p.v.t = "str" THEN 7 * Len(p.v.s) + 3
       ELSE IF p.v.t = "num" THEN (IF p.v.n < 0 THEN 11 - p.v.n ELSE 13 + p.v.n)
       ELSE 5)

RECURSIVE WeightSum(_)
WeightSum(S) ==
    IF S = {} THEN 0
    ELSE LET p == CHOOSE q \in S : TRUE
         IN  PairWeight(p) * 7919 + WeightSum(S \ {p})

PyHashAbs(seed, props) ==
    ((WeightSum(Range(props)) % 10007) * 104729 + seed * 1000003 + 12345678) % 10^9

IdKey       == <<"i", "d">>
ObjectIdKey == <<"o", "b", "j", "e", "c", "t", "i", "d">>
GlobalIdKey == <<"g", "l", "o", "b", "a", "l", "i", "d">>
UrlKey      == <<"u", "r", "l">>
LinkKey     == <<"l", "i", "n", "k">>
SourceKey   == <<"s", "o", "u", "r", "c", "e">>

\* lines 214-219, with n the normalised record
ProjectId(seed, props, n) ==
    LET id       == PropsGet(props, IdKey)
        objectid == PropsGet(props, ObjectIdKey)
        globalid == PropsGet(props, GlobalIdKey)
    IN  IF Truthy(id) THEN PyStr(id)
        ELSE IF Truthy(objectid) THEN PyStr(objectid)
        ELSE IF Truthy(globalid) THEN PyStr(globalid)
        ELSE n.name \o <<"-">> \o Take(NatToStr(PyHashAbs(seed, props)), 6)

\* line 232
ProjectUrl(props) ==
    LET u == PropsGet(props, UrlKey)
        l == PropsGet(props, LinkKey)
        s == PropsGet(props, SourceKey)
    IN  IF Truthy(u) THEN u ELSE IF Truthy(l) THEN l ELSE IF Truthy(s) THEN s ELSE Str(<<>>)

\* _feature_to_project, lines 188-233: a record, None, or the exception raised
_feature_to_project(seed, f) ==
    LET props == IF f.properties.t = "null" THEN <<>> ELSE f.properties.items
    IN  Bind(_normalise_record(props), LAMBDA n :
        IF Raised(n) THEN n
        ELSE Bind(GeometryCoords(f.geometry), LAMBDA g :
        IF g = TypeError THEN TypeError
        ELSE Bind(IF IsNone(g) /\ ~IsNone(n.lng) /\ ~IsNone(n.lat)
                  THEN Tuple(<<n.lng, n.lat>>) ELSE g, LAMBDA coords :
        IF IsNone(coords) THEN None
        ELSE [t            |-> "dict",
              id           |-> ProjectId(seed, props, n),
              name         |-> n.name,
              sector       |-> n.sector,
              jurisdiction |-> n.jurisdiction,
              company      |-> n.company,
              status       |-> n.status,
              cost         |-> n.cost,
              start        |-> n.start,
              end          |-> n.end,
              coords       |-> coords,
              url          |-> ProjectUrl(props)])))

(***************************************************************************)
(* SEED_PROJECTS, lines 29-95. The company, status and url texts, which    *)
(* no modelled operation reads, are left out; a cost, an int beyond TLC's  *)
(* 32-bit integers, is kept in two limbs; names are in ASCII.              *)
(***************************************************************************)
Seed(id, name, sector, jurisdiction, cost, start, end, lng, lat) ==
    [t |-> "dict", id |-> id, name |-> name, sector |-> sector,
     jurisdiction |-> jurisdiction, cost |-> [t |-> "int", big |-> cost],
     start |-> Str(start), end |-> Str(end),
     coords |-> Tuple(<<Float(lng), Float(lat)>>)]

SEED_PROJECTS ==
    <<
      \* metrolink
      Seed(<<"m", "e", "t", "r", "o", "l", "i", "n", "k">>,
           <<"M", "e", "t", "r", "o", "L", "i", "n", "k", " ", "(", "D", "u", "b", "l", "i", "n", ")">>,
           Transport, Ireland, Big(FALSE, 9500, 0),
           <<"2", "0", "2", "5", "-", "0", "1", "-", "0", "1">>,
           <<"2", "0", "3", "5", "-", "1", "2", "-", "3", "1">>,
           -1252400, 10670200),
      \* northsouth400kv
      Seed(<<"n", "o", "r", "t", "h", "s", "o", "u", "t", "h", "4", "0", "0", "k", "v">>,
           <<"N", "o", "r", "t", "h", "-", "S", "o", "u", "t", "h", " ", "4", "0", "0", "k", "V", " ", "I", "n", "t", "e", "r", "c", "o", "n", "n", "e", "c", "t", "o", "r">>,
           Energy, CrossBorder, Big(FALSE, 350, 0),
           <<"2", "0", "2", "4", "-", "0", "1", "-", "0", "1">>,
           <<"2", "0", "2", "7", "-", "1", "2", "-", "3", "1">>,
           -1357200, 10863600),
      \* belfastgcs
      Seed(<<"b", "e", "l", "f", "a", "s", "t", "g", "c", "s">>,
           <<"B", "e", "l", "f", "a", "s", "t", " ", "G", "r", "a", "n", "d", " ", "C", "e", "n", "t", "r", "a", "l", " ", "S", "t", "a", "t", "i", "o", "n">>,
           Transport, NorthernIreland, Big(FALSE, 340, 0),
           <<"2", "0", "1", "9", "-", "0", "1", "-", "0", "1">>,
           <<"2", "0", "2", "4", "-", "1", "0", "-", "1", "3">>,
           -1187800, 10918800),
      \* corklowerharbour
      Seed(<<"c", "o", "r", "k", "l", "o", "w", "e", "r", "h", "a", "r", "b", "o", "u", "r">>,
           <<"C", "o", "r", "k", " ", "L", "o", "w", "e", "r", " ", "H", "a", "r", "b", "o", "u", "r", " ", "D", "r", "a", "i", "n", "a", "g", "e">>,
           Water, Ireland, Big(FALSE, 500, 0),
           <<"2", "0", "1", "5", "-", "0", "1", "-", "0", "1">>,
           <<"2", "0", "2", "5", "-", "0", "1", "-", "0", "1">>,
           -1667800, 10372200),
      \* dartplus
      Seed(<<"d", "a", "r", "t", "p", "l", "u", "s">>,
           <<"D", "A", "R", "T", "+", " ", "P", "r", "o", "g", "r", "a", "m", "m", "e">>,
           Transport, Ireland, Big(FALSE, 3000, 0),
           <<"2", "0", "2", "0", "-", "0", "1", "-", "0", "1">>,
           <<"2", "0", "3", "2", "-", "1", "2", "-", "3", "1">>,
           -1236600, 10670600)
    >>

(***************************************************************************)
(* load_geojson                                                            *)
(*                                                                         *)
(* What requests.get met: [status |-> "failed"] (no answer, a timeout, a   *)
(* status raise_for_status refuses) or [status |-> "ok", body |-> b], with *)
(* b [j |-> "invalid"] (not JSON), [j |-> "array"] (JSON, not an object)   *)
(* or [j |-> "object", type, features].                                    *)
(***************************************************************************)
\* "FeatureCollection"
FeatureCollectionText == <<"F", "e", "a", "t", "u", "r", "e", "C", "o", "l", "l", "e", "c", "t", "i", "o", "n">>

\* "Feature"
FeatureText == <<"F", "e", "a", "t", "u", "r", "e">>

RequestException == Raise("RequestException")
JSONDecodeError  == Raise("JSONDecodeError")
NotACollection   == Raise("ValueError: Not a GeoJSON FeatureCollection")

\* lines 247-252: the adapter over the features, the first exception ending it
RECURSIVE AdaptAll(_, _)
AdaptAll(seed, features) ==
    IF features = <<>> THEN Tuple(<<>>)
    ELSE Bind(_feature_to_project(seed, Head(features)), LAMBDA p :
         IF Raised(p) THEN p
         ELSE Bind(AdaptAll(seed, Tail(features)), LAMBDA out :
              IF Raised(out) \/ IsNone(p) THEN out
              ELSE Tuple(<<p>> \o out.items)))

\* load_geojson without the test of line 245
load_geojson_unvalidated(seed, resp) ==
    IF resp.status # "ok" THEN RequestException
    ELSE IF resp.body.j = "invalid" THEN JSONDecodeError
    ELSE IF resp.body.j # "object" THEN Tuple(<<>>)
    ELSE IF resp.body.features.t \in {"absent", "null"} THEN Tuple(<<>>)
    ELSE AdaptAll(seed, resp.body.features.items)

\* load_geojson, lines 241-252: the list returned or the exception raised
load_geojson(seed, resp) ==
    IF resp.status # "ok" THEN RequestException
    ELSE IF resp.body.j = "invalid" THEN JSONDecodeError
    ELSE IF resp.body.j # "object" \/ resp.body.type # Str(FeatureCollectionText)
    THEN NotACollection
    ELSE IF resp.body.features.t \in {"absent", "null"} THEN Tuple(<<>>)
    ELSE AdaptAll(seed, resp.body.features.items)

(***************************************************************************)
(* The sidebar's load handlers and the script run around them              *)
(***************************************************************************)
\* st.session_state.get("ext_projects", [])
ExtProjects(state) == IF state.t = "absent" THEN <<>> ELSE state.items

\* line 311
AllProjects(state) == SEED_PROJECTS \o ExtProjects(state)

\* lines 288-294 and 298-305 after the request: the try block and its except
AfterLoad(source, resp) ==
    \E projects \in {load_geojson(hashseed, resp)} :
        /\ response' = resp
        /\ IF Raised(projects)
           THEN /\ message' = [t |-> "error", source |-> source, e |-> projects.raised]
                /\ session_state' = session_state
           ELSE /\ message' = [t |-> "success", source |-> source,
                               n |-> Len(projects.items)]
                /\ session_state' =
                       Tuple(merge_projects(ExtProjects(session_state), projects.items))
        /\ all_projects' = AllProjects(session_state')

(***************************************************************************)
(* The inputs the checked runs draw from                                   *)
(***************************************************************************)
MaxMergeLen     == 2
MaxPieces       == 3
MaxCostLen      == 3
MaxLatLen       == 2
MaxProps        == 2
MaxFeatureProps == 2
MaxRingLen      == 2
MaxFeatures     == 2
MaxHashSeed     == 1

RECURSIVE Concat(_)
Concat(ss) == IF ss = <<>> THEN <<>> ELSE Head(ss) \o Concat(Tail(ss))

Pair(k, x) == [k |-> k, v |-> x]

\* every list of at most n of the pairs, no key twice
PropsUpTo(pairs, n) ==
    {ps \in SeqsUpTo(pairs, n) : \A i, j \in 1..Len(ps) : i # j => ps[i].k # ps[j].k}

MergeIds     == {<<"a">>, <<"b">>}
MergeNames   == {<<"x">>, <<"y">>, <<"z">>}
MergeRecords == [t : {"dict"}, id : MergeIds, name : MergeNames]

UrlPieces ==
    {<<" ">>, <<"/">>, <<"x">>, <<"?">>, QuerySegment, <<"/", "q", "u", "e", "r", "y">>}
UrlInputs == {Concat(ps) : ps \in SeqsUpTo(UrlPieces, MaxPieces)}

\* epoch numbers on both sides of 1e9, of 1e12 and of the year 9999
DateHis == {0, 86, 999, 1000, 1001, 1700, 999999, 10^6, 10^6 + 1, 1700000,
            253402300, 253402301}
DateLos == {0, 1, 400000, 799999, 800000, 999999}
DateInputs ==
    {Big(n, h, l) : n \in BOOLEAN, h \in DateHis, l \in DateLos} \ {Big(TRUE, 0, 0)}

CostAlphabet == {"1", ".", "-", "m"}
CostTexts    == {Str(s) : s \in SeqsUpTo(CostAlphabet, MaxCostLen)}
LatTexts     == {Str(s) : s \in SeqsUpTo(CostAlphabet, MaxLatLen)}

SectorValues ==
    {Str(<<"R", "a", "i", "l", " ", "T", "r", "a", "n", "s", "p", "o", "r", "t">>), Str(<<"R", "e", "n", "e", "w", "a", "b", "l", "e", "s">>), Str(<<"U", "i", "s", "c", "e">>), Str(<<"H", "o", "u", "s", "i", "n", "g">>),
     Str(<<>>), Num(0)}
JurisdictionValues ==
    {Str(<<"N", "o", "r", "t", "h", "e", "r", "n", " ", "I", "r", "e", "l", "a", "n", "d">>), Str(<<"R", "O", "I">>), Str(<<"C", "r", "o", "s", "s", "-", "b", "o", "r", "d", "e", "r">>), Str(<<"U", "K">>), Num(0)}
DateValues ==
    {Str(<<"2", "0", "2", "7", "-", "0", "6", "-", "0", "1">>), Str(<<"2", "0", "2", "7", "-", "6", "-", "1">>), Str(<<"2", "0", "2", "7", "-", "0", "2", "-", "3", "0">>), Str(<<"s", "o", "o", "n">>),
     Num(0), Num(86400), Num(1700000000), Null}
NameValues == {Str(<<"T", "e", "s", "t", " ", "R", "a", "i", "l">>), Str(<<>>), Num(0)}

NormPairs ==
    {Pair(<<"c", "o", "s", "t">>, x) : x \in CostTexts \cup {Num(-5), Num(0), Num(7), Null}}
    \cup {Pair(<<"B", "u", "d", "g", "e", "t">>, x) : x \in {Str(<<"9">>), Num(3)}}
    \cup {Pair(<<"C", "O", "S", "T">>, Str(<<"2">>))}
    \cup {Pair(<<"l", "a", "t">>, x) : x \in LatTexts \cup {Num(53), Null}}
    \cup {Pair(<<"L", "a", "t", "i", "t", "u", "d", "e">>, Num(54))}
    \cup {Pair(<<"l", "n", "g">>, x) : x \in {Num(-6), Str(<<"-", "6", ".", "2">>), Str(<<"m">>)}}
    \cup {Pair(k, x) : k \in {<<"s", "e", "c", "t", "o", "r">>, <<"C", "a", "t", "e", "g", "o", "r", "y">>, <<"t", "h", "e", "m", "e">>}, x \in SectorValues}
    \cup {Pair(k, x) : k \in {<<"j", "u", "r", "i", "s", "d", "i", "c", "t", "i", "o", "n">>, <<"C", "o", "u", "n", "t", "r", "y">>}, x \in JurisdictionValues}
    \cup {Pair(k, x) : k \in {<<"s", "t", "a", "r", "t">>, <<"S", "t", "a", "r", "t", "_", "D", "a", "t", "e">>}, x \in DateValues}
    \cup {Pair(<<"e", "n", "d">>, x) : x \in {Str(<<"2", "0", "2", "7", "-", "0", "6", "-", "0", "1">>), Num(-1)}}
    \cup {Pair(k, x) : k \in {<<"n", "a", "m", "e">>, <<"P", "r", "o", "j", "e", "c", "t", "_", "N", "a", "m", "e">>, <<"t", "i", "t", "l", "e">>}, x \in NameValues}
    \cup {Pair(<<"c", "o", "m", "p", "a", "n", "y">>, Str(<<"N", "T", "A">>)), Pair(<<"S", "t", "a", "g", "e">>, Str(<<"P", "l", "a", "n", "n", "i", "n", "g">>))}

Feature(props, geom) == [t |-> "dict", properties |-> props, geometry |-> geom]
Geometry(type, coordinates) ==
    [t |-> "dict", type |-> Str(type), coordinates |-> coordinates]

FeaturePairs ==
    {Pair(<<"i", "d">>, x) : x \in {Str(<<"p", "1">>), Str(<<>>), Num(0), Num(7), Null}}
    \cup {Pair(<<"o", "b", "j", "e", "c", "t", "i", "d">>, x) : x \in {Num(0), Num(5)}}
    \cup {Pair(<<"O", "B", "J", "E", "C", "T", "I", "D">>, Num(9)), Pair(<<"g", "l", "o", "b", "a", "l", "i", "d">>, Str(<<"g">>))}
    \cup {Pair(<<"l", "a", "t">>, x) : x \in {Num(53), Str(<<"m">>)}}
    \cup {Pair(<<"l", "n", "g">>, Num(-6)), Pair(<<"n", "a", "m", "e">>, Str(<<"A">>)), Pair(<<"l", "i", "n", "k">>, Str(<<"u">>))}

\* 0, 1e-05, 2.0 and -6.5
CoordValues == {0, 2, 2 * FloatScale, (-13 * FloatScale) \div 2}
Positions   == {<<a, b>> : a, b \in CoordValues}
Rings(n)    == SeqsUpTo(Positions, n)

\* [[0,0],[0,2],[2,2],[2,0],[0,0]] of run_tests, lines 421-424
SquareRing ==
    << <<0, 0>>, <<0, 2 * FloatScale>>, <<2 * FloatScale, 2 * FloatScale>>,
       <<2 * FloatScale, 0>>, <<0, 0>> >>

LineStringText == <<"L", "i", "n", "e", "S", "t", "r", "i", "n", "g">>

PointCoordinates ==
    {Absent, Null, Tuple(<<>>), Tuple(<<None, None>>), Tuple(<<Float(0)>>)}
    \cup {Tuple(<<Float(a), Float(b)>>) : a, b \in CoordValues}

Geometries(n) ==
    {Null}
    \cup {Geometry(PointText, c) : c \in PointCoordinates}
    \cup {Geometry(PolygonText, c) : c \in {Absent, Null, Tuple(<<SquareRing>>)}}
    \cup {Geometry(PolygonText, Tuple(<<r>>)) : r \in Rings(n)}
    \cup {Geometry(PolygonText, Tuple(<<SquareRing, r>>)) : r \in Rings(n)}
    \cup {Geometry(MultiPolygonText, Tuple(<< <<SquareRing>>, <<r>> >>)) : r \in Rings(n)}
    \cup {Geometry(LineStringText, Tuple(<< <<0, 0>>, <<2, 2>> >>))}

\* a few property maps, for the runs that vary the geometry
FewProps ==
    {Null, Tuple(<<>>),
     Tuple(<<Pair(<<"l", "a", "t">>, Num(53)), Pair(<<"l", "n", "g">>, Num(-6))>>),
     Tuple(<<Pair(<<"l", "a", "t">>, Num(53))>>)}

\* a few geometries, for the runs that vary the property map
FewGeometries ==
    {Null, Geometry(PointText, Absent),
     Geometry(PointText, Tuple(<<Float(0), Float(2 * FloatScale)>>))}

HashSeeds == 0..MaxHashSeed

\* the features the loads of a session answer with
PointAt(lng, lat) == Geometry(PointText, Tuple(<<Float(lng * FloatScale), Float(lat * FloatScale)>>))

SessionFeatures ==
    {Feature(Tuple(<<Pair(IdKey, Str(SEED_PROJECTS[1].id))>>), PointAt(-6, 53)),
     Feature(Tuple(<<Pair(IdKey, Str(<<"p", "1">>))>>), PointAt(-7, 54)),
     Feature(Tuple(<<Pair(IdKey, Str(<<"p", "1">>)), Pair(<<"c", "o", "s", "t">>, Num(5))>>), PointAt(-7, 54)),
     Feature(Tuple(<<Pair(IdKey, Str(<<"p", "3">>)), Pair(<<"l", "a", "t">>, Str(<<"m">>))>>), Null)}

Object(type, features) == [j |-> "object", type |-> type, features |-> features]

Responses ==
    {[status |-> "failed"],
     [status |-> "ok", body |-> [j |-> "invalid"]],
     [status |-> "ok", body |-> [j |-> "array"]],
     [status |-> "ok", body |-> Object(Str(FeatureText), Absent)],
     [status |-> "ok", body |-> Object(Absent, Tuple(<<>>))],
     [status |-> "ok", body |-> Object(Str(FeatureCollectionText), Absent)],
     [status |-> "ok", body |-> Object(Str(FeatureCollectionText), Null)]}
    \cup {[status |-> "ok", body |-> Object(Str(FeatureCollectionText), Tuple(fs))] :
             fs \in SeqsUpTo(SessionFeatures, MaxFeatures)}

\* the answers of a layer's query endpoint: those with at most one feature
ArcResponses ==
    {r \in Responses :
        (r.status = "ok" /\ r.body.j = "object" /\ r.body.features.t = "tuple") =>
            Len(r.body.features.items) <= 1}

\* a script run that fetched nothing
NoRequest == [status |-> "none"]

ArcUrls == {<<" ">>, <<"x", "/">>}

(***************************************************************************)
(* Initial states and steps                                                *)
(***************************************************************************)
IdleMerge   == existing = <<>> /\ incoming = <<>> /\ merged = <<>>
IdleUrl     == url = <<>> /\ target = <<>> /\ target2 = <<>>
IdleDate    == v = None /\ ms = None /\ date = None
IdleFeature == feature = None /\ record = None
IdleSession ==
    /\ session_state = Absent /\ response = NoRequest /\ message = None
    /\ all_projects = SEED_PROJECTS

\* merge_projects on two lists
InitMerge ==
    /\ pc = "merge"
    /\ existing \in SeqsUpTo(MergeRecords, MaxMergeLen)
    /\ incoming \in SeqsUpTo(MergeRecords, MaxMergeLen)
    /\ merged = <<>>
    /\ hashseed = 0
    /\ IdleUrl /\ IdleDate /\ IdleFeature /\ IdleSession

Merge ==
    /\ pc = "merge"
    /\ merged' = merge_projects(existing, incoming)
    /\ pc' = "merged"
    /\ UNCHANGED <<existing, incoming, urlVars, dateVars, featureVars, sessionVars>>

NextMerge == Merge

SpecMerge == InitMerge /\ [][NextMerge]_vars

\* build_arcgis_query on a text, and on what it returned
InitUrl ==
    /\ pc = "url"
    /\ url \in UrlInputs
    /\ target = <<>> /\ target2 = <<>>
    /\ hashseed = 0
    /\ IdleMerge /\ IdleDate /\ IdleFeature /\ IdleSession

BuildQuery ==
    /\ pc = "url"
    /\ target' = build_arcgis_query(url)
    /\ pc' = "built"
    /\ UNCHANGED <<url, target2, mergeVars, dateVars, featureVars, sessionVars>>

BuildAgain ==
    /\ pc = "built"
    /\ target2' = build_arcgis_query(target)
    /\ pc' = "rebuilt"
    /\ UNCHANGED <<url, target, mergeVars, dateVars, featureVars, sessionVars>>

NextUrl == BuildQuery \/ BuildAgain

SpecUrl == InitUrl /\ [][NextUrl]_vars

\* parse_date on a number
InitDate ==
    /\ pc = "date"
    /\ v \in DateInputs
    /\ ms = None /\ date = None
    /\ hashseed = 0
    /\ IdleMerge /\ IdleUrl /\ IdleFeature /\ IdleSession

ParseDate ==
    /\ pc = "date"
    /\ ms' = EpochMs(v)
    /\ date' = parse_date_num(v)
    /\ pc' = "parsed"
    /\ UNCHANGED <<v, mergeVars, urlVars, featureVars, sessionVars>>

NextDate == ParseDate

SpecDate == InitDate /\ [][NextDate]_vars

\* _normalise_record on a property map
InitNorm ==
    /\ pc = "normalise"
    /\ feature \in {Feature(Tuple(ps), Null) : ps \in PropsUpTo(NormPairs, MaxProps)}
    /\ record = None
    /\ hashseed = 0
    /\ IdleMerge /\ IdleUrl /\ IdleDate /\ IdleSession

Normalise ==
    /\ pc = "normalise"
    /\ record' = _normalise_record(feature.properties.items)
    /\ pc' = "normalised"
    /\ UNCHANGED <<feature, hashseed, mergeVars, urlVars, dateVars, sessionVars>>

NextNorm == Normalise

SpecNorm == InitNorm /\ [][NextNorm]_vars

\* _feature_to_project on a feature
InitFeature ==
    /\ pc = "adapt"
    /\ feature \in
          {Feature(Tuple(ps), g) : ps \in PropsUpTo(FeaturePairs, MaxFeatureProps),
                                  g \in FewGeometries}
          \cup {Feature(p, g) : p \in FewProps, g \in Geometries(MaxRingLen)}
    /\ record = None
    /\ hashseed \in HashSeeds
    /\ IdleMerge /\ IdleUrl /\ IdleDate /\ IdleSession

Adapt ==
    /\ pc = "adapt"
    /\ record' = _feature_to_project(hashseed, feature)
    /\ pc' = "adapted"
    /\ UNCHANGED <<feature, hashseed, mergeVars, urlVars, dateVars, sessionVars>>

NextFeature == Adapt

SpecFeature == InitFeature /\ [][NextFeature]_vars

\* a session of the dashboard: script runs, each with at most one button pressed
Init ==
    /\ pc = "idle"
    /\ hashseed \in HashSeeds
    /\ IdleSession
    /\ IdleMerge /\ IdleUrl /\ IdleDate /\ IdleFeature

\* "Load GeoJSON" pressed, lines 287-294, and the run to line 311
LoadGeoJSON ==
    /\ \E resp \in Responses : AfterLoad("GeoJSON", resp)
    /\ UNCHANGED <<pc, hashseed, urlVars, mergeVars, dateVars, feature, record>>

\* "Query ArcGIS" pressed, lines 297-305, and the run to line 311; requests.get
\* refuses the empty URL
QueryArcGIS ==
    /\ \E arc_url \in ArcUrls :
          IF build_arcgis_query(arc_url) = <<>>
          THEN AfterLoad("ArcGIS", [status |-> "failed"])
          ELSE \E resp \in ArcResponses : AfterLoad("ArcGIS", resp)
    /\ UNCHANGED <<pc, hashseed, urlVars, mergeVars, dateVars, feature, record>>

\* a run with no button pressed: nothing is fetched, line 311 runs again
Rerun ==
    /\ response' = NoRequest
    /\ message' = None
    /\ all_projects' = AllProjects(session_state)
    /\ UNCHANGED <<pc, hashseed, session_state, urlVars, mergeVars, dateVars, feature, record>>

Next == LoadGeoJSON \/ QueryArcGIS \/ Rerun

Spec == Init /\ [][Next]_vars

(***************************************************************************)
(* The claims                                                              *)
(***************************************************************************)
IdsOf(ps) == {ps[i].id : i \in 1..Len(ps)}

UniqueIds(ps) == \A i, j \in 1..Len(ps) : ps[i].id = ps[j].id => i = j

\* the last record of ps with the id
LastWith(ps, id) == ps[Max({i \in 1..Len(ps) : ps[i].id = id})]

\* C1: merge_projects(existing, incoming) holds exactly one record for each id
\* of either list, and for an id of incoming that record is incoming's last
\* record with the id.
C1_MergeLastWriteWins ==
    pc = "merged" =>
        /\ IdsOf(merged) = IdsOf(existing) \cup IdsOf(incoming)
        /\ UniqueIds(merged)
        /\ \A id \in IdsOf(incoming) : LastWith(incoming, id) \in Range(merged)

\* an id of existing comes twice in incoming, with three different records
C1_Witness ==
    /\ pc = "merged"
    /\ Len(incoming) = 2
    /\ incoming[1].id = incoming[2].id
    /\ incoming[1] # incoming[2]
    /\ \E i \in 1..Len(existing) :
          existing[i].id = incoming[1].id /\ existing[i] \notin Range(incoming)
    /\ incoming[2] \in Range(merged)

\* the body was JSON, and not an object whose type is "FeatureCollection"
JsonNotCollection(r) ==
    /\ r.status = "ok"
    /\ r.body.j \in {"array", "object"}
    /\ ~(r.body.j = "object" /\ r.body.type = Str(FeatureCollectionText))

\* C5: a load whose body is JSON but no FeatureCollection ends in the validation
\* failure, never in a success; and a load that fails leaves the accumulated
\* external collection as it was.
C5_FailedLoadKeepsCollection ==
    [][/\ JsonNotCollection(response') =>
              message'.t = "error" /\ message'.e = NotACollection.raised
       /\ message'.t = "error" => session_state' = session_state]_vars

\* {"type": "Feature"} refused after records were accumulated
C5_Witness ==
    /\ JsonNotCollection(response)
    /\ response.body.j = "object"
    /\ message.t = "error"
    /\ session_state.t = "tuple"
    /\ session_state.items # <<>>

\* C10: the collection the front end shows never holds an id twice, and a load
\* never removes an id from the accumulated external collection.
C10_UniqueAndKept ==
    [][/\ UniqueIds(all_projects')
       /\ IdsOf(ExtProjects(session_state)) \subseteq IdsOf(ExtProjects(session_state'))]_vars

\* s is u without its leading and trailing whitespace
IsStripOf(s, u) ==
    \E i \in 1..(Len(u) + 1), j \in 0..Len(u) :
        /\ s = SubSeq(u, i, j)
        /\ \A k \in 1..Len(u) : (k < i \/ k > j) => u[k] \in Whitespace
        /\ s # <<>> => s[1] \notin Whitespace /\ s[Len(s)] \notin Whitespace

\* u without one trailing slash
DropOneSlash(u) ==
    IF u # <<>> /\ u[Len(u)] = "/" THEN SubSeq(u, 1, Len(u) - 1) ELSE u

\* C9, as claimed: idempotent; a URL holding "/query?" is returned unchanged; the
\* empty URL gives the empty text; any other URL gives itself less its trailing
\* slash, then the query.
C9_Original ==
    pc = "rebuilt" =>
        /\ target2 = target
        /\ Contains(url, QuerySegment) => target = url
        /\ url = <<>> => target = <<>>
        /\ (url # <<>> /\ ~Contains(url, QuerySegment)) =>
               target = DropOneSlash(url) \o QuerySuffix

\* C9, amended: idempotent; with s the URL less its surrounding whitespace, an
\* empty s gives the empty text, an s holding "/query?" is returned as it is, and
\* any other s gives itself less all its trailing slashes, then the query.
C9_Amended ==
    pc = "rebuilt" =>
        /\ target2 = target
        /\ \E i \in 1..(Len(url) + 1), j \in 0..Len(url) :
              LET s == SubSeq(url, i, j)
              IN  /\ IsStripOf(s, url)
                  /\ s = <<>> => target = <<>>
                  /\ Contains(s, QuerySegment) => target = s
                  /\ (s # <<>> /\ ~Contains(s, QuerySegment)) =>
                         \E k \in 0..Len(s) :
                             /\ \A m \in (k + 1)..Len(s) : s[m] = "/"
                             /\ k > 0 => s[k] # "/"
                             /\ target = SubSeq(s, 1, k) \o QuerySuffix

\* a URL holding "/query?" between whitespace: returned stripped, and stable
C9_Witness ==
    /\ pc = "rebuilt"
    /\ Contains(url, QuerySegment)
    /\ target # url
    /\ target2 = target

\* b = 1000 * a, limb by limb
IsTimes1000(b, a) ==
    /\ b.neg = a.neg
    /\ b.hi = 1000 * a.hi + a.lo \div 1000
    /\ b.lo = (a.lo % 1000) * 1000

\* a <= b, for signed two-limb numbers (no negative zero)
BigLE(a, b) ==
    IF a.neg # b.neg THEN a.neg
    ELSE IF ~a.neg THEN a.hi < b.hi \/ (a.hi = b.hi /\ a.lo <= b.lo)
    ELSE b.hi < a.hi \/ (b.hi = a.hi /\ b.lo <= a.lo)

\* the first millisecond of a day of the epoch: 86400000 * day
DayStart(day) ==
    LET a == IF day < 0 THEN -day ELSE day
    IN  Big(day < 0, 86 * a + (2 * a) \div 5, ((2 * a) % 5) * 200000)

\* the day of the epoch of a civil date
DaysFromCivil(c) ==
    LET y   == IF c.m <= 2 THEN c.y - 1 ELSE c.y
        era == y \div 400
        yoe == y - era * 400
        mp  == IF c.m > 2 THEN c.m - 3 ELSE c.m + 9
        doy == (153 * mp + 2) \div 5 + c.d - 1
        doe == yoe * 365 + yoe \div 4 - yoe \div 100 + doy
    IN  era * 146097 + doe - 719468

\* d is the UTC date the instant a (milliseconds) falls on; None exactly when
\* the instant is outside the years 1 to 9999
DateIsUtcDayOf(a, d) ==
    IF d = None
    THEN ~BigLE(DayStart(MinDay), a) \/ BigLE(DayStart(MaxDay + 1), a)
    ELSE /\ d.m \in 1..12 /\ d.d \in 1..31
         /\ BigLE(DayStart(DaysFromCivil(d)), a)
         /\ ~BigLE(DayStart(DaysFromCivil(d) + 1), a)

\* C7, as claimed: a number below 1e9 is scaled by 1000, a number above 1e12 is
\* left as it is, and the date returned is the UTC date of that millisecond.
C7_Original ==
    pc = "parsed" =>
        /\ (v.neg \/ v.hi < 10^3) => IsTimes1000(ms, v)
        /\ (~v.neg /\ (v.hi > 10^6 \/ (v.hi = 10^6 /\ v.lo > 0))) => ms = v
        /\ DateIsUtcDayOf(ms, date)

\* v > 1e9 and not v > 1e12
InSecondsBand(a) ==
    /\ ~a.neg
    /\ a.hi > 10^3 \/ (a.hi = 10^3 /\ a.lo > 0)
    /\ a.hi < 10^6 \/ (a.hi = 10^6 /\ a.lo = 0)

\* C7, amended: a number above 1e9 and not above 1e12 is scaled by 1000, every
\* other number is left as it is, and the date returned is the UTC date of that
\* millisecond (None outside the years 1 to 9999).
C7_Amended ==
    pc = "parsed" =>
        /\ InSecondsBand(v) => IsTimes1000(ms, v)
        /\ ~InSecondsBand(v) => ms = v
        /\ DateIsUtcDayOf(ms, date)

\* 86400000, below 1e9: read as milliseconds, the second day of the epoch
C7_Witness ==
    /\ pc = "parsed"
    /\ v = Big(FALSE, 86, 400000)
    /\ ms = v
    /\ date = [t |-> "date", y |-> 1970, m |-> 1, d |-> 2]

\* C3: _normalise_record raises on no property map, and the sector and the
\* jurisdiction it returns are of their enumerations.
C3_Total ==
    pc = "normalised" =>
        /\ ~Raised(record)
        /\ record.sector \in Range(SECTORS)
        /\ record.jurisdiction \in Range(JURISDICTIONS)

\* C4: the cost of a record _normalise_record or _feature_to_project returns is
\* never negative.
C4_CostNonNegative ==
    (pc \in {"normalised", "adapted"} /\ record.t = "dict") => record.cost.f >= 0

\* a pair of two numbers
IsNumberPair(c) ==
    /\ c.t = "tuple"
    /\ Len(c.items) = 2
    /\ \A i \in 1..2 : c.items[i].t = "float"

\* the property map of a feature
PropsOf(f) == IF f.properties.t = "null" THEN <<>> ELSE f.properties.items

\* the value of the first of the keys, in any casing, that the map holds
\* with a value
ScalarOf(props, keys) == get_any(LowerDict(props), keys)

\* the geometry is null, or has no coordinates
NoCoordinates(f) ==
    f.geometry.t = "null" \/ f.geometry.coordinates.t \in {"absent", "null"}

\* C2: a returned record has two numbers as coords; a feature with no coordinates
\* in its geometry and no lat/lng is dropped; a feature with no geometry and
\* numeric lat and lng is kept, with coords (lng, lat).
C2_CoordsResolved ==
    pc = "adapted" =>
        LET lat == ScalarOf(PropsOf(feature), LatKeys)
            lng == ScalarOf(PropsOf(feature), LngKeys)
        IN  /\ record.t = "dict" => IsNumberPair(record.coords)
            /\ (NoCoordinates(feature) /\ lat = None /\ lng = None) => record = None
            /\ (feature.geometry.t = "null" /\ lat.t = "num" /\ lng.t = "num") =>
                   /\ record.t = "dict"
                   /\ record.coords =
                          Tuple(<<Float(FloatOfInt(lng.n)), Float(FloatOfInt(lat.n))>>)

\* the map holds the key, with a value that is not null
Present(props, k) == \E i \in 1..Len(props) : props[i].k = k /\ props[i].v.t # "null"

\* name, "-", and at most six digits
IsSyntheticId(id, name) ==
    /\ Len(id) > Len(name) + 1
    /\ Len(id) <= Len(name) + 7
    /\ SubSeq(id, 1, Len(name) + 1) = name \o <<"-">>
    /\ AllDigits(Drop(id, Len(name) + 1))

\* C6: the id is the id property when present, else objectid when present, else
\* globalid when present, else the name, "-" and hash digits.
C6_IdPriority ==
    (pc = "adapted" /\ record.t = "dict") =>
        LET props == PropsOf(feature)
        IN  IF Present(props, IdKey) THEN record.id = PyStr(PropsGet(props, IdKey))
            ELSE IF Present(props, ObjectIdKey)
            THEN record.id = PyStr(PropsGet(props, ObjectIdKey))
            ELSE IF Present(props, GlobalIdKey)
            THEN record.id = PyStr(PropsGet(props, GlobalIdKey))
            ELSE IsSyntheticId(record.id, record.name)

\* the vertices of a Polygon's or a MultiPolygon's coordinates
Vertices(geom) ==
    IF geom.type = Str(PolygonText)
    THEN UNION {Range(ring) : ring \in Range(geom.coordinates.items)}
    ELSE UNION {UNION {Range(ring) : ring \in Range(poly)} :
                    poly \in Range(geom.coordinates.items)}

\* C8: for a Polygon or MultiPolygon of [lng, lat] pairs, coords is the midpoint
\* of the bounding box of all the vertices.
C8_BoxMidpoint ==
    (/\ pc = "adapted"
     /\ record.t = "dict"
     /\ feature.geometry.t = "dict"
     /\ feature.geometry.type \in {Str(PolygonText), Str(MultiPolygonText)}
     /\ feature.geometry.coordinates.t = "tuple") =>
        LET vs   == Vertices(feature.geometry)
            lngs == {p[1] : p \in vs}
            lats == {p[2] : p \in vs}
        IN  vs # {} =>
                record.coords = Tuple(<<Float((Min(lngs) + Max(lngs)) \div 2),
                                        Float((Min(lats) + Max(lats)) \div 2)>>)

====
